---------------------------- MODULE Spec2Model ----------------------------
(***************************************************************************)
(* A model of two parts of the lyrio backend:                              *)
(*                                                                         *)
(*  - UserService.updateUserProfile (src/src/user/user.service.ts): the    *)
(*    optimistic write of username / email / password against a store     *)
(*    with unique usernames and emails, and the diagnosis on failure;      *)
(*  - ProblemController (src/src/problem/problem.controller.ts): the       *)
(*    permission-guarded handlers create, updateStatement,                 *)
(*    getProblemDetail and setProblemPermissions.                          *)
(*                                                                         *)
(* SpecUser runs the first part: one call per user at a time, the calls of *)
(* different users interleaved at every await.  SpecProblem runs the       *)
(* second: one request at a time, every await a step of its own.           *)
(*                                                                         *)
(* ProblemService, GroupService, AuthService and the entities are not      *)
(* among the sources; what the controller and the user service call of     *)
(* them is modelled from the specification (sections 3, 4.1, 4.2, 4.3).    *)
(* The profile fields without a unique index (publicEmail, bio,            *)
(* sexIsFamale, organization, location) are left out.                      *)
(***************************************************************************)
EXTENDS Integers, Sequences, FiniteSets, TLC

VARIABLES
    \* ---- user part ----
    store,      \* committed rows: user id -> [username, email, password]
    pending,    \* a user's row written inside a still open transaction
    upc,        \* where each user's updateUserProfile call stands
    args,       \* the arguments of the call: username, email, password
    failure,    \* the exception e caught at line 131, "none" when none
    result,     \* what the call returned (or "THROW" when it re-raised e)
    before,     \* the user's committed row when the call began
    ncalls      \* calls begun so far

userVars == <<store, pending, upc, args, failure, result, before, ncalls>>

VARIABLES
    \* ---- problem part ----
    problems,   \* problem id -> the problem entity and its localized contents
    grants,     \* problem id -> permission level -> granted users and groups
    rpc,        \* where the request in the controller stands
    req,        \* the request: handler, currentUser and the fields read so far
    found,      \* the handler's local `problem` (0: null)
    checked,    \* what userHasPermission was asked and what it returned
    acted,      \* the guarded ProblemService methods this request has invoked
    resolved,   \* the handler's locals `users` and `groups`
    resp,       \* the response
    nreqs       \* requests received so far

problemVars ==
    <<problems, grants, rpc, req, found, checked, acted, resolved, resp, nreqs>>

vars == <<userVars, problemVars>>

----------------------------------------------------------------------------
(* Bounds *)

\* updateUserProfile calls begun in one behaviour
MaxCalls == 2

\* requests the problem controller receives in one behaviour
MaxRequests == 2

----------------------------------------------------------------------------
(* The user part: values *)

NULL == "null"

Users == {1, 2, 3}

UsernameInputs == {NULL, "alice", "zed"}
EmailInputs == {NULL, "alice@x", "zed@x"}
PasswordInputs == {NULL, "pw1"}

NoRow == [username |-> NULL, email |-> NULL]

InitStore ==
    (1 :> [username |-> "alice", email |-> "alice@x", password |-> "pw0"]) @@
    (2 :> [username |-> "bob",   email |-> "bob@x",   password |-> "pw0"]) @@
    (3 :> [username |-> "carol", email |-> "carol@x", password |-> "pw0"])

NoArgs == [username |-> NULL, email |-> NULL, password |-> NULL]

\* UpdateUserProfileResponseError, null (success) and the re-raised exception
OK == "OK"
DUPLICATE_USERNAME == "DUPLICATE_USERNAME"
DUPLICATE_EMAIL == "DUPLICATE_EMAIL"
THROW == "THROW"
NONE == "NONE"

----------------------------------------------------------------------------
(* The user part: the store *)

\* a slip: the count compared the wrong way round
checkUsernameAvailabilityInverted(username) ==
    Cardinality({q \in Users : store[q].username = username}) # 0

\* userRepository.count({username}) == 0, on committed rows
checkUsernameAvailability(username) ==
    Cardinality({q \in Users : store[q].username = username}) = 0

\* userRepository.count({email}) == 0, on committed rows
checkEmailAvailability(email) ==
    Cardinality({q \in Users : store[q].email = email}) = 0

changingUsername(p) == args[p].username # NULL
changingEmail(p) == args[p].email # NULL

\* the entity as lines 116-117 leave it: the fields save(user) writes
EntityRow(p) ==
    [username |-> IF changingUsername(p) THEN args[p].username ELSE store[p].username,
     email    |-> IF changingEmail(p) THEN args[p].email ELSE store[p].email]

\* the write touches a unique key that another user's open transaction holds
\* (the key it wrote, or the key it is leaving): the store makes the writer wait
Blocked(p, row) ==
    \E q \in Users \ {p} :
        /\ pending[q] # NoRow
        /\ \/ row.username \in {pending[q].username, store[q].username}
           \/ row.email \in {pending[q].email, store[q].email}

\* a slip: a store with no unique index on email
ViolatesUniqueUsernameOnly(p, row) ==
    \E q \in Users \ {p} : store[q].username = row.username

\* the unique indexes on username and email refuse the write
ViolatesUnique(p, row) ==
    \E q \in Users \ {p} :
        \/ store[q].username = row.username
        \/ store[q].email = row.email

WithFields(r, row) == [r EXCEPT !.username = row.username, !.email = row.email]

----------------------------------------------------------------------------
(* The user part: updateUserProfile *)

\* lines 112-123: the call begins; the entity is changed in memory only
Begin(p, username, email, password) ==
    /\ upc[p] \in {"idle", "done"}
    /\ ncalls < MaxCalls
    /\ ncalls' = ncalls + 1
    /\ args' = [args EXCEPT ![p] =
                  [username |-> username, email |-> email, password |-> password]]
    /\ before' = [before EXCEPT ![p] = store[p]]
    /\ failure' = [failure EXCEPT ![p] = "none"]
    /\ result' = [result EXCEPT ![p] = NONE]
    /\ upc' = [upc EXCEPT ![p] = IF password = NULL THEN "save" ELSE "rotate"]
    /\ UNCHANGED <<store, pending>>
    /\ UNCHANGED problemVars

\* line 125: userRepository.save(user), one statement of its own
Save(p) ==
    /\ upc[p] = "save"
    /\ ~Blocked(p, EntityRow(p))
    /\ IF ViolatesUnique(p, EntityRow(p))
       THEN /\ failure' = [failure EXCEPT ![p] = "store"]
            /\ upc' = [upc EXCEPT ![p] = "diagUsername"]
            /\ UNCHANGED <<store, result>>
       ELSE /\ store' = [store EXCEPT ![p] = WithFields(@, EntityRow(p))]
            /\ result' = [result EXCEPT ![p] = OK]
            /\ upc' = [upc EXCEPT ![p] = "done"]
            /\ UNCHANGED failure
    /\ UNCHANGED <<pending, args, before, ncalls>>
    /\ UNCHANGED problemVars

\* a slip: the failure of changePassword is swallowed
AfterRotationIgnoringFailure(ok) == "txSave"

\* where the call goes after authService.changePassword (line 128)
AfterRotation(ok) == IF ok THEN "txSave" ELSE "diagUsername"

\* line 128: authService.changePassword, called on the service and not on the
\* transactional entity manager: its write is a statement of its own, committed
\* when it returns.  It may fail, and then writes nothing.
Rotate(p) ==
    /\ upc[p] = "rotate"
    /\ \E ok \in BOOLEAN :
         /\ store' = IF ok THEN [store EXCEPT ![p].password = args[p].password]
                           ELSE store
         /\ failure' = [failure EXCEPT ![p] = IF ok THEN "none" ELSE "rotation"]
         /\ upc' = [upc EXCEPT ![p] = AfterRotation(ok)]
    /\ UNCHANGED <<pending, args, result, before, ncalls>>
    /\ UNCHANGED problemVars

\* line 129: transactionalEntityManager.save(user), inside the transaction
TxSave(p) ==
    /\ upc[p] = "txSave"
    /\ ~Blocked(p, EntityRow(p))
    /\ IF ViolatesUnique(p, EntityRow(p))
       THEN /\ failure' = [failure EXCEPT ![p] = "store"]
            /\ upc' = [upc EXCEPT ![p] = "diagUsername"]
            /\ UNCHANGED pending
       ELSE /\ pending' = [pending EXCEPT ![p] = EntityRow(p)]
            /\ upc' = [upc EXCEPT ![p] = "commit"]
            /\ UNCHANGED failure
    /\ UNCHANGED <<store, args, result, before, ncalls>>
    /\ UNCHANGED problemVars

\* line 130: the callback returned, the transaction commits
Commit(p) ==
    /\ upc[p] = "commit"
    /\ store' = [store EXCEPT ![p] = WithFields(@, pending[p])]
    /\ pending' = [pending EXCEPT ![p] = NoRow]
    /\ result' = [result EXCEPT ![p] = OK]
    /\ upc' = [upc EXCEPT ![p] = "done"]
    /\ UNCHANGED <<args, failure, before, ncalls>>
    /\ UNCHANGED problemVars

\* a slip: the email is checked before the username
DiagnoseEmailFirst(p) ==
    /\ upc[p] = "diagUsername"
    /\ result' = [result EXCEPT ![p] =
                    IF changingEmail(p) /\ ~checkEmailAvailability(args[p].email)
                    THEN DUPLICATE_EMAIL
                    ELSE IF changingUsername(p)
                            /\ ~checkUsernameAvailability(args[p].username)
                    THEN DUPLICATE_USERNAME ELSE THROW]
    /\ upc' = [upc EXCEPT ![p] = "done"]
    /\ UNCHANGED <<store, pending, args, failure, before, ncalls>>
    /\ UNCHANGED problemVars

\* lines 132-133
DiagnoseUsername(p) ==
    /\ upc[p] = "diagUsername"
    /\ IF changingUsername(p) /\ ~checkUsernameAvailability(args[p].username)
       THEN /\ result' = [result EXCEPT ![p] = DUPLICATE_USERNAME]
            /\ upc' = [upc EXCEPT ![p] = "done"]
       ELSE /\ upc' = [upc EXCEPT ![p] = "diagEmail"]
            /\ UNCHANGED result
    /\ UNCHANGED <<store, pending, args, failure, before, ncalls>>
    /\ UNCHANGED problemVars

\* lines 135-138
DiagnoseEmail(p) ==
    /\ upc[p] = "diagEmail"
    /\ result' = [result EXCEPT ![p] =
                    IF changingEmail(p) /\ ~checkEmailAvailability(args[p].email)
                    THEN DUPLICATE_EMAIL ELSE THROW]
    /\ upc' = [upc EXCEPT ![p] = "done"]
    /\ UNCHANGED <<store, pending, args, failure, before, ncalls>>
    /\ UNCHANGED problemVars

UserAtRest ==
    /\ store = InitStore
    /\ pending = [p \in Users |-> NoRow]
    /\ upc = [p \in Users |-> "idle"]
    /\ args = [p \in Users |-> NoArgs]
    /\ failure = [p \in Users |-> "none"]
    /\ result = [p \in Users |-> NONE]
    /\ before = InitStore
    /\ ncalls = 0

NextUser ==
    \E p \in Users :
        \/ \E u \in UsernameInputs, e \in EmailInputs, pw \in PasswordInputs :
             Begin(p, u, e, pw)
        \/ Save(p)
        \/ Rotate(p)
        \/ TxSave(p)
        \/ Commit(p)
        \/ DiagnoseUsername(p)
        \/ DiagnoseEmail(p)

----------------------------------------------------------------------------
(* The problem part: values *)

\* request.currentUser: a user of the directory, or nobody (not logged in)
Anonymous == 0
Actors == Users \cup {Anonymous}

\* ids a request may name that no user / no group has
UnknownUserIds == {8, 9}
Groups == {10}
UnknownGroupIds == {18, 19}
\* the userIds and the groupIds a setProblemPermissions request may carry
UserIdLists == {<<>>, <<3>>, <<3, 9, 8>>, <<8, 9>>}
GroupIdLists == {<<>>, <<10>>, <<10, 19, 18>>}

ProblemIds == {1, 2}

CREATE == "CREATE"
READ == "READ"
WRITE == "WRITE"
CONTROL == "CONTROL"
GrantLevels == {READ, WRITE, CONTROL}

Locales == {"en", "fr", "de"}

\* a statement: the title variants and the content variants, each in the order
\* the locales were inserted
Variant(locale, text) == [locale |-> locale, text |-> text]

Statements ==
    { [title   |-> <<Variant("en", "title-en-a")>>,
       content |-> <<Variant("en", "body-en-a"), Variant("fr", "body-fr-a")>>],
      [title   |-> <<Variant("en", "title-en-b"), Variant("fr", "title-fr-b")>>,
       content |-> <<Variant("fr", "body-fr-b")>>],
      [title   |-> <<Variant("fr", "title-fr-c"), Variant("en", "title-en-c")>>,
       content |-> <<Variant("en", "body-en-c"), Variant("fr", "body-fr-c")>>] }

\* the statement problem 1 was created with
InitStatement ==
    [title   |-> <<Variant("en", "title-en-0"), Variant("fr", "title-fr-0")>>,
     content |-> <<Variant("en", "body-en-0")>>]

NoProblem ==
    [exists |-> FALSE, displayId |-> 0, ownerId |-> 0, isPublic |-> FALSE,
     title |-> <<>>, content |-> <<>>]

\* the display id of the problem with this id
DisplayIdOf(id) == 100 + id

NoGrants == [l \in GrantLevels |-> [users |-> {}, groups |-> {}]]

NoReq ==
    [op |-> "none", currentUser |-> Anonymous, problemId |-> 0, locale |-> NULL,
     permissionType |-> NULL, userIds |-> <<>>, groupIds |-> <<>>]

NoCheck == [asked |-> FALSE, level |-> NULL, problem |-> 0, ok |-> FALSE]

NoResp ==
    [error |-> NULL, errorObjectId |-> 0, id |-> 0,
     titleLocale |-> NULL, title |-> NULL,
     contentLocale |-> NULL, contentSections |-> NULL]

Range(q) == {q[i] : i \in 1..Len(q)}

----------------------------------------------------------------------------
(* The problem part: the services the controller calls *)

\* UserEntity.isAdmin
isAdmin(user) == user = 1

\* userPrivilegeService.userHasPrivilege: the global privilege to create problems
CreatePrivileged == {2}

\* groups a user is a member of
GroupsOf(user) == IF user = 3 THEN {10} ELSE {}

\* READ < WRITE < CONTROL
LevelRank(level) ==
    CASE level = READ -> 1 [] level = WRITE -> 2 [] level = CONTROL -> 3

\* problemService.findProblemById
findProblemById(id) ==
    IF id \in ProblemIds /\ problems[id].exists THEN id ELSE 0

\* problemService.findProblemByDisplayId
findProblemByDisplayId(displayId) ==
    IF \E id \in ProblemIds : problems[id].exists /\ problems[id].displayId = displayId
    THEN CHOOSE id \in ProblemIds :
            problems[id].exists /\ problems[id].displayId = displayId
    ELSE 0

\* userService.findUserById(id) is not null
userExists(id) == id \in Users

\* groupService.findGroupById(id) is not null
groupExists(id) == id \in Groups

\* a slip: only a grant of the very level asked for counts
GrantedExactly(user, type, problem) ==
    \/ user \in grants[problem][type].users
    \/ GroupsOf(user) \cap grants[problem][type].groups # {}

\* a grant held by the user, or by one of the user's groups, at a level at least `type`
GrantedAtLeast(user, type, problem) ==
    \E l \in GrantLevels :
        /\ LevelRank(l) >= LevelRank(type)
        /\ \/ user \in grants[problem][l].users
           \/ GroupsOf(user) \cap grants[problem][l].groups # {}

\* problemService.userHasPermission(user, type, problem?)
userHasPermission(user, type, problem) ==
    IF type = CREATE
    THEN user # Anonymous /\ (isAdmin(user) \/ user \in CreatePrivileged)
    ELSE \/ user # Anonymous /\ isAdmin(user)
         \/ user # Anonymous /\ problems[problem].ownerId = user
         \/ type = READ /\ problems[problem].isPublic
         \/ user # Anonymous /\ GrantedAtLeast(user, type, problem)

\* the variant of the requested locale, or else the first inserted one
resolve(variants, requestedLocale) ==
    IF \E i \in 1..Len(variants) : variants[i].locale = requestedLocale
    THEN LET i == CHOOSE j \in 1..Len(variants) : variants[j].locale = requestedLocale
         IN  <<requestedLocale, variants[i].text>>
    ELSE <<variants[1].locale, variants[1].text>>

\* problemService.getProblemLocalizedTitle
getProblemLocalizedTitle(problem, locale) == resolve(problems[problem].title, locale)

\* problemService.getProblemLocalizedContent
getProblemLocalizedContent(problem, locale) == resolve(problems[problem].content, locale)

\* the id problemService.createProblem gives the new problem
FreeProblemIds == {id \in ProblemIds : ~problems[id].exists}

\* problemService.setProblemPermissions: the grants of one level are replaced
setProblemPermissions(problem, type, users, groups) ==
    [grants EXCEPT ![problem][type] = [users |-> Range(users), groups |-> Range(groups)]]

----------------------------------------------------------------------------
(* The problem part: the controller *)

\* the level each handler asks userHasPermission for
PermissionOf(op) ==
    CASE op = "create" -> CREATE
      [] op = "updateStatement" -> WRITE
      [] op = "getProblemDetail" -> READ
      [] op = "setProblemPermissions" -> CONTROL

Respond(error, errorObjectId) ==
    /\ resp' = [resp EXCEPT !.error = error, !.errorObjectId = errorObjectId]
    /\ rpc' = "done"

\* a request arrives; its other fields are drawn where the handler first reads them
Receive(op, currentUser, problemId) ==
    /\ rpc \in {"idle", "done"}
    /\ nreqs < MaxRequests
    /\ nreqs' = nreqs + 1
    /\ req' = [NoReq EXCEPT !.op = op, !.currentUser = currentUser,
                            !.problemId = problemId]
    /\ found' = 0
    /\ checked' = NoCheck
    /\ acted' = <<>>
    /\ resolved' = [users |-> <<>>, groups |-> <<>>]
    /\ resp' = NoResp
    /\ rpc' = IF op = "create" THEN "check" ELSE "find"
    /\ UNCHANGED <<problems, grants>>
    /\ UNCHANGED userVars

\* how a request names its problem: getProblemDetail by request.id, else by
\* request.displayId, else not at all; the other handlers by request.problemId
LookupKeys(op) ==
    IF op = "getProblemDetail" THEN {"id", "displayId", "none"} ELSE {"id"}

\* lines 78-84, 122-133, 191-198: the problem is looked up
FindProblem ==
    /\ rpc = "find"
    /\ \E key \in LookupKeys(req.op) :
       LET problem ==
             CASE key = "id" -> findProblemById(req.problemId)
               [] key = "displayId" ->
                     findProblemByDisplayId(DisplayIdOf(req.problemId))
               [] key = "none" -> 0
       IN  /\ found' = problem
           /\ IF problem = 0
              THEN Respond("NO_SUCH_PROBLEM",
                           IF req.op = "setProblemPermissions" THEN req.problemId ELSE 0)
              ELSE rpc' = "check" /\ UNCHANGED resp
    /\ UNCHANGED <<problems, grants, req, checked, acted, resolved, nreqs>>
    /\ UNCHANGED userVars

\* where a handler goes once userHasPermission has returned true
AfterCheck(op) ==
    CASE op = "create" -> "createProblem"
      [] op = "updateStatement" -> "updateProblemStatement"
      [] op = "getProblemDetail" -> "title"
      [] op = "setProblemPermissions" -> "users"

\* a slip: the result of userHasPermission is not looked at
CheckPermissionIgnored ==
    /\ rpc = "check"
    /\ checked' = [asked |-> TRUE, level |-> PermissionOf(req.op), problem |-> found,
                   ok |-> userHasPermission(req.currentUser, PermissionOf(req.op), found)]
    /\ rpc' = AfterCheck(req.op)
    /\ UNCHANGED <<problems, grants, req, found, acted, resolved, resp, nreqs>>
    /\ UNCHANGED userVars

\* lines 44-52, 86-95, 135-144, 200-209: userHasPermission is awaited, and the
\* handler returns PERMISSION_DENIED when it is false
CheckPermission ==
    /\ rpc = "check"
    /\ LET ok == userHasPermission(req.currentUser, PermissionOf(req.op), found)
       IN  /\ checked' = [asked |-> TRUE, level |-> PermissionOf(req.op),
                          problem |-> found, ok |-> ok]
           /\ IF ok
              THEN rpc' = AfterCheck(req.op) /\ UNCHANGED resp
              ELSE Respond("PERMISSION_DENIED", 0)
    /\ UNCHANGED <<problems, grants, req, found, acted, resolved, nreqs>>
    /\ UNCHANGED userVars

\* lines 54-66: problemService.createProblem, which may fail
CreateProblem ==
    /\ rpc = "createProblem"
    /\ acted' = Append(acted, "createProblem")
    /\ \/ /\ Respond("FAILED", 0)
          /\ UNCHANGED <<problems, grants>>
       \/ \E statement \in Statements :
            /\ FreeProblemIds # {}
            /\ LET id == CHOOSE i \in FreeProblemIds : \A j \in FreeProblemIds : i <= j
               IN  /\ problems' = [problems EXCEPT ![id] =
                                     [exists |-> TRUE, displayId |-> DisplayIdOf(id),
                                      ownerId |-> req.currentUser,
                                      isPublic |-> FALSE,
                                      title |-> statement.title,
                                      content |-> statement.content]]
                   /\ grants' = [grants EXCEPT ![id] = NoGrants]
                   /\ resp' = [resp EXCEPT !.id = id]
                   /\ rpc' = "done"
    /\ UNCHANGED <<req, found, checked, resolved, nreqs>>
    /\ UNCHANGED userVars

\* lines 97-107: problemService.updateProblemStatement, which may fail
UpdateProblemStatement ==
    /\ rpc = "updateProblemStatement"
    /\ acted' = Append(acted, "updateProblemStatement")
    /\ \/ /\ Respond("FAILED", 0)
          /\ UNCHANGED problems
       \/ \E statement \in Statements :
            /\ problems' = [problems EXCEPT ![found].title = statement.title,
                                            ![found].content = statement.content]
            /\ rpc' = "done"
            /\ UNCHANGED resp
    /\ UNCHANGED <<grants, req, found, checked, resolved, nreqs>>
    /\ UNCHANGED userVars

\* lines 146-152: the title is resolved for request.locale
ReadTitle ==
    /\ rpc = "title"
    /\ \E locale \in Locales :
         LET got == getProblemLocalizedTitle(found, locale)
         IN  /\ req' = [req EXCEPT !.locale = locale]
             /\ resp' = [resp EXCEPT !.titleLocale = got[1], !.title = got[2]]
    /\ acted' = Append(acted, "getProblemLocalizedTitle")
    /\ rpc' = "content"
    /\ UNCHANGED <<problems, grants, found, checked, resolved, nreqs>>
    /\ UNCHANGED userVars

\* a slip: the content is resolved for the locale the title came in
ReadContentInTitleLocale ==
    /\ rpc = "content"
    /\ LET got == getProblemLocalizedContent(found, resp.titleLocale)
       IN  resp' = [resp EXCEPT !.contentLocale = got[1], !.contentSections = got[2]]
    /\ acted' = Append(acted, "getProblemLocalizedContent")
    /\ rpc' = "samples"
    /\ UNCHANGED <<problems, grants, req, found, checked, resolved, nreqs>>
    /\ UNCHANGED userVars

\* lines 153-159: the content is resolved for request.locale, on its own
ReadContent ==
    /\ rpc = "content"
    /\ LET got == getProblemLocalizedContent(found, req.locale)
       IN  resp' = [resp EXCEPT !.contentLocale = got[1], !.contentSections = got[2]]
    /\ acted' = Append(acted, "getProblemLocalizedContent")
    /\ rpc' = "samples"
    /\ UNCHANGED <<problems, grants, req, found, checked, resolved, nreqs>>
    /\ UNCHANGED userVars

\* lines 160-178: samples and judge info are read and the detail is returned
ReadSamplesAndJudgeInfo ==
    /\ rpc = "samples"
    /\ acted' = acted \o <<"getProblemSamples", "getProblemJudgeInfo">>
    /\ resp' = [resp EXCEPT !.id = found]
    /\ rpc' = "done"
    /\ UNCHANGED <<problems, grants, req, found, checked, resolved, nreqs>>
    /\ UNCHANGED userVars

\* lines 211-212: the handler starts on request.userIds
ReadPrincipals ==
    /\ rpc = "users"
    /\ req.permissionType = NULL
    /\ \E type \in GrantLevels, userIds \in UserIdLists, groupIds \in GroupIdLists :
         req' = [req EXCEPT !.permissionType = type, !.userIds = userIds,
                            !.groupIds = groupIds]
    /\ UNCHANGED <<problems, grants, rpc, found, checked, acted, resolved, resp, nreqs>>
    /\ UNCHANGED userVars

\* a slip: a user id nobody has is passed over
ResolveUserSkippingUnknown ==
    /\ rpc = "users"
    /\ req.permissionType # NULL
    /\ LET i == Len(resolved.users) + 1
       IN  IF i > Len(req.userIds)
           THEN rpc' = "groups" /\ UNCHANGED resolved
           ELSE /\ resolved' = [resolved EXCEPT !.users = Append(@, req.userIds[i])]
                /\ UNCHANGED rpc
    /\ UNCHANGED <<problems, grants, req, found, checked, acted, resp, nreqs>>
    /\ UNCHANGED userVars

\* lines 212-221: one turn of the loop over request.userIds
ResolveUser ==
    /\ rpc = "users"
    /\ req.permissionType # NULL
    /\ LET i == Len(resolved.users) + 1
       IN  IF i > Len(req.userIds)
           THEN rpc' = "groups" /\ UNCHANGED <<resolved, resp>>
           ELSE IF ~userExists(req.userIds[i])
                THEN Respond("NO_SUCH_USER", req.userIds[i]) /\ UNCHANGED resolved
                ELSE /\ resolved' = [resolved EXCEPT !.users = Append(@, req.userIds[i])]
                     /\ UNCHANGED <<rpc, resp>>
    /\ UNCHANGED <<problems, grants, req, found, checked, acted, nreqs>>
    /\ UNCHANGED userVars

\* lines 223-233: one turn of the loop over request.groupIds
ResolveGroup ==
    /\ rpc = "groups"
    /\ LET i == Len(resolved.groups) + 1
       IN  IF i > Len(req.groupIds)
           THEN rpc' = "setProblemPermissions" /\ UNCHANGED <<resolved, resp>>
           ELSE IF ~groupExists(req.groupIds[i])
                THEN Respond("NO_SUCH_GROUP", req.groupIds[i]) /\ UNCHANGED resolved
                ELSE /\ resolved' = [resolved EXCEPT !.groups = Append(@, req.groupIds[i])]
                     /\ UNCHANGED <<rpc, resp>>
    /\ UNCHANGED <<problems, grants, req, found, checked, acted, nreqs>>
    /\ UNCHANGED userVars

\* lines 235-242: problemService.setProblemPermissions
SetPermissions ==
    /\ rpc = "setProblemPermissions"
    /\ grants' = setProblemPermissions(found, req.permissionType,
                                       resolved.users, resolved.groups)
    /\ acted' = Append(acted, "setProblemPermissions")
    /\ rpc' = "done"
    /\ UNCHANGED <<problems, req, found, checked, resolved, resp, nreqs>>
    /\ UNCHANGED userVars

InitProblem ==
    /\ UserAtRest
    /\ \E public \in BOOLEAN :
         problems = [id \in ProblemIds |->
                       IF id = 1
                       THEN [exists |-> TRUE, displayId |-> DisplayIdOf(1),
                             ownerId |-> 2, isPublic |-> public,
                             title |-> InitStatement.title,
                             content |-> InitStatement.content]
                       ELSE NoProblem]
    /\ grants = [id \in ProblemIds |-> NoGrants]
    /\ rpc = "idle"
    /\ req = NoReq
    /\ found = 0
    /\ checked = NoCheck
    /\ acted = <<>>
    /\ resolved = [users |-> <<>>, groups |-> <<>>]
    /\ resp = NoResp
    /\ nreqs = 0

NextProblem ==
    \/ \E op \in {"create", "updateStatement", "getProblemDetail",
                   "setProblemPermissions"},
          currentUser \in Actors, problemId \in ProblemIds :
         Receive(op, currentUser, IF op = "create" THEN 0 ELSE problemId)
    \/ FindProblem
    \/ CheckPermission
    \/ CreateProblem
    \/ UpdateProblemStatement
    \/ ReadTitle
    \/ ReadContent
    \/ ReadSamplesAndJudgeInfo
    \/ ReadPrincipals
    \/ ResolveUser
    \/ ResolveGroup
    \/ SetPermissions

SpecProblem == InitProblem /\ [][NextProblem]_vars

\* the problem part at rest, for the behaviours of the user part
ProblemAtRest ==
    /\ problems = [id \in ProblemIds |-> NoProblem]
    /\ grants = [id \in ProblemIds |-> NoGrants]
    /\ rpc = "idle"
    /\ req = NoReq
    /\ found = 0
    /\ checked = NoCheck
    /\ acted = <<>>
    /\ resolved = [users |-> <<>>, groups |-> <<>>]
    /\ resp = NoResp
    /\ nreqs = 0

InitUser == UserAtRest /\ ProblemAtRest

SpecUser == InitUser /\ [][NextUser]_vars

----------------------------------------------------------------------------
(* Properties of updateUserProfile, checked under SpecUser *)

\* user p's call is over
Returned(p) == upc[p] = "done"

\* no user's row held the username / the email when the behaviour began
FreshUsername(n) == n # NULL /\ \A r \in Users : InitStore[r].username # n
HeldEmailAtStart(p, e) == \E r \in Users \ {p} : InitStore[r].email = e

\* p and q are the only two calls there have been, both are over, both asked for
\* the username n that nobody held, neither asked for an email another user held
\* and neither's credential rotation failed
TwoClaimed(p, q, n) ==
    /\ p # q
    /\ ncalls = 2
    /\ Returned(p) /\ Returned(q)
    /\ FreshUsername(n)
    /\ args[p].username = n /\ args[q].username = n
    /\ ~HeldEmailAtStart(p, args[p].email) /\ ~HeldEmailAtStart(q, args[q].email)
    /\ failure[p] # "rotation" /\ failure[q] # "rotation"

\* C1: of two calls of different users for the same new username, in whatever
\* order their steps ran, exactly one returned success and the other returned
\* DUPLICATE_USERNAME (neither both succeed, nor both fail, nor a re-raise)
ExactlyOneClaims ==
    \A p \in Users, q \in Users, n \in UsernameInputs :
        TwoClaimed(p, q, n) =>
            \/ result[p] = OK /\ result[q] = DUPLICATE_USERNAME
            \/ result[q] = OK /\ result[p] = DUPLICATE_USERNAME

\* a race for "zed" inside transactions that the store decided
ExactlyOneClaimsWitness ==
    \E p \in Users, q \in Users :
        /\ TwoClaimed(p, q, "zed")
        /\ args[p].password # NULL /\ args[q].password # NULL
        /\ result[p] = OK /\ store[p].username = "zed"
        /\ failure[q] = "store" /\ result[q] = DUPLICATE_USERNAME

\* C2: a call whose credential rotation failed leaves the user's committed
\* username, email and password as they were when the call began
RotationFailureKeepsRow ==
    \A p \in Users :
        Returned(p) /\ failure[p] = "rotation" => store[p] = before[p]

\* a call that asked for a new username and a new email, and whose rotation failed
RotationFailureKeepsRowWitness ==
    \E p \in Users :
        /\ Returned(p) /\ failure[p] = "rotation"
        /\ args[p].username = "zed" /\ args[p].email = "zed@x"
        /\ result[p] = THROW
        /\ store[p] = InitStore[p]

\* what the call asked for is what the store holds
AllApplied(p) ==
    /\ store[p].password = args[p].password
    /\ changingUsername(p) => store[p].username = args[p].username
    /\ changingEmail(p) => store[p].email = args[p].email

\* C3: a call with a password ends with the new password and the new fields
\* both committed, or with the row as it was when the call began
RotationAndSaveAtomic ==
    \A p \in Users :
        Returned(p) /\ args[p].password # NULL =>
            AllApplied(p) \/ store[p] = before[p]

\* C4: no two users hold the same username, and no two the same email
UniqueUsernamesAndEmails ==
    \A p \in Users, q \in Users :
        p # q => /\ store[p].username # store[q].username
                 /\ store[p].email # store[q].email

\* two users asked for the same username and the same email; one holds them,
\* the other's write was refused
UniqueUsernamesAndEmailsWitness ==
    \E p \in Users, q \in Users :
        /\ p # q
        /\ Returned(p) /\ Returned(q)
        /\ args[p].username = "zed" /\ args[q].username = "zed"
        /\ args[p].email = "zed@x" /\ args[q].email = "zed@x"
        /\ store[p].username = "zed" /\ store[p].email = "zed@x"
        /\ failure[q] = "store"

\* some row holds the username / the email
UsernameTaken(n) == \E r \in Users : store[r].username = n
EmailTaken(e) == \E r \in Users : store[r].email = e

\* C5, for the call of user p: a failed write is followed by the check of the
\* username; the call returns DUPLICATE_USERNAME exactly when a username was
\* given and is taken, goes on to the email otherwise, returns DUPLICATE_EMAIL
\* exactly when an email was given and is taken, and re-raises otherwise; it
\* never returns success
DiagnosisOf(p) ==
    /\ failure[p] = "none" /\ failure'[p] # "none" => upc'[p] = "diagUsername"
    /\ upc[p] = "diagUsername" /\ upc'[p] # upc[p] =>
          IF args[p].username # NULL /\ UsernameTaken(args[p].username)
          THEN upc'[p] = "done" /\ result'[p] = DUPLICATE_USERNAME
          ELSE upc'[p] = "diagEmail" /\ result'[p] = NONE
    /\ upc[p] = "diagEmail" /\ upc'[p] # upc[p] =>
          /\ upc'[p] = "done"
          /\ result'[p] = IF args[p].email # NULL /\ EmailTaken(args[p].email)
                          THEN DUPLICATE_EMAIL ELSE THROW
    /\ failure'[p] # "none" => result'[p] # OK
    /\ upc'[p] = "done" /\ failure'[p] = "none" => result'[p] = OK

\* C5: every step of every call goes by the order of the diagnosis
DiagnosisOrder == [][\A p \in Users : DiagnosisOf(p)]_vars

\* a write the store refused for the email alone: the username was given and
\* was free, the email was taken; and a write refused for both, which is
\* reported as the username's
DiagnosisOrderWitness ==
    \E p \in Users, q \in Users :
        /\ Returned(p) /\ failure[p] = "store"
        /\ args[p].username = "zed" /\ args[p].email = "alice@x"
        /\ result[p] = DUPLICATE_EMAIL
        /\ Returned(q) /\ failure[q] = "store"
        /\ args[q].username = "alice" /\ args[q].email = "alice@x"
        /\ result[q] = DUPLICATE_USERNAME

\* C10: when a call returns DUPLICATE_USERNAME, a user other than the target
\* holds the username it asked for, and when it returns DUPLICATE_EMAIL, another
\* user holds the email
DuplicateMeansHeldByAnother ==
    [][\A p \in Users :
         /\ result[p] = NONE /\ result'[p] = DUPLICATE_USERNAME =>
               \E r \in Users \ {p} : store[r].username = args[p].username
         /\ result[p] = NONE /\ result'[p] = DUPLICATE_EMAIL =>
               \E r \in Users \ {p} : store[r].email = args[p].email]_vars

----------------------------------------------------------------------------
(* Properties of the problem controller, checked under SpecProblem *)

\* the setProblemPermissions request has passed the permission check and its
\* principals are being, or have been, looked up
Validating ==
    /\ req.op = "setProblemPermissions"
    /\ req.permissionType # NULL

\* the first id of ids that is not in known (0 when all are)
FirstUnknown(ids, known) ==
    LET bad == {i \in 1..Len(ids) : ids[i] \notin known}
    IN  IF bad = {} THEN 0
        ELSE ids[CHOOSE i \in bad : \A j \in bad : i <= j]

\* C6, for one step: setProblemPermissions answers NO_SUCH_USER with the first
\* user id nobody has, else NO_SUCH_GROUP with the first group id no group has,
\* and then the service's setProblemPermissions was not invoked and the grants
\* are as they were; the grants do not change while the ids are looked up
UnknownPrincipalStep ==
    /\ Validating /\ rpc # "done" /\ rpc' = "done" =>
          IF FirstUnknown(req.userIds, Users) # 0
          THEN /\ resp'.error = "NO_SUCH_USER"
               /\ resp'.errorObjectId = FirstUnknown(req.userIds, Users)
               /\ acted' = <<>> /\ grants' = grants
          ELSE IF FirstUnknown(req.groupIds, Groups) # 0
          THEN /\ resp'.error = "NO_SUCH_GROUP"
               /\ resp'.errorObjectId = FirstUnknown(req.groupIds, Groups)
               /\ acted' = <<>> /\ grants' = grants
          ELSE /\ resp'.error = NULL
               /\ acted' = <<"setProblemPermissions">>
    /\ req.op = "setProblemPermissions"
          /\ rpc \in {"find", "check", "users", "groups"} =>
          grants' = grants /\ acted' = <<>>

\* C6: every step of setProblemPermissions goes by it
UnknownPrincipal == [][UnknownPrincipalStep]_vars

\* a request naming an unknown user after a known one, another unknown user
\* after it and unknown groups: the first unknown user is reported
UnknownPrincipalWitness ==
    /\ rpc = "done"
    /\ req.op = "setProblemPermissions"
    /\ req.userIds = <<3, 9, 8>> /\ req.groupIds = <<10, 19, 18>>
    /\ resolved.users = <<3>>
    /\ resp.error = "NO_SUCH_USER" /\ resp.errorObjectId = 9
    /\ acted = <<>>

\* the service methods each handler guards
GuardedBy(op) ==
    CASE op = "create" -> {"createProblem"}
      [] op = "updateStatement" -> {"updateProblemStatement"}
      [] op = "getProblemDetail" ->
            {"getProblemLocalizedTitle", "getProblemLocalizedContent",
             "getProblemSamples", "getProblemJudgeInfo"}
      [] op = "setProblemPermissions" -> {"setProblemPermissions"}
      [] OTHER -> {}

\* the level each handler has to hold
LevelFor(op) ==
    CASE op = "create" -> CREATE
      [] op = "updateStatement" -> WRITE
      [] op = "getProblemDetail" -> READ
      [] op = "setProblemPermissions" -> CONTROL
      [] OTHER -> NULL

\* C7, for one step: a guarded service method is invoked only by a request
\* whose userHasPermission call, for the handler's level and on the problem the
\* request names (none for create), returned true; the problems and the grants
\* change only when a guarded method is invoked; a check that returned false
\* ends the request at once with PERMISSION_DENIED, and a request so answered
\* has invoked nothing
GuardStep ==
    /\ nreqs' = nreqs /\ acted' # acted =>
          /\ checked.asked /\ checked.ok
          /\ checked.level = LevelFor(req.op)
          /\ checked.problem = (IF req.op = "create" THEN 0 ELSE req.problemId)
          /\ Range(acted') \subseteq GuardedBy(req.op)
    /\ ~checked.asked /\ checked'.asked =>
          /\ checked'.level = LevelFor(req.op)
          /\ checked'.ok = userHasPermission(req.currentUser, LevelFor(req.op), found)
    /\ <<problems, grants>>' # <<problems, grants>> =>
          nreqs' = nreqs /\ acted' # acted
    /\ checked'.asked /\ ~checked'.ok =>
          /\ rpc' = "done" /\ resp'.error = "PERMISSION_DENIED"
          /\ acted' = <<>>
    /\ resp'.error = "PERMISSION_DENIED" => checked'.asked /\ ~checked'.ok

\* C7: every step of the controller goes by it
GuardedActions == [][GuardStep]_vars

\* user 3 was granted READ on problem 1 by an earlier, permitted request, and
\* its updateStatement is denied without the service being invoked
GuardedActionsWitness ==
    /\ rpc = "done"
    /\ grants[1][READ].users = {3}
    /\ req.op = "updateStatement" /\ req.currentUser = 3 /\ req.problemId = 1
    /\ checked = [asked |-> TRUE, level |-> WRITE, problem |-> 1, ok |-> FALSE]
    /\ resp.error = "PERMISSION_DENIED"
    /\ acted = <<>>

\* C8: whoever may CONTROL a problem may WRITE it, and whoever may WRITE it may
\* READ it, whatever the admin flag, the owner, the visibility and the grants
PermissionMonotone ==
    \A actor \in Actors, problem \in ProblemIds :
        problems[problem].exists =>
            /\ userHasPermission(actor, CONTROL, problem) =>
                  userHasPermission(actor, WRITE, problem)
            /\ userHasPermission(actor, WRITE, problem) =>
                  userHasPermission(actor, READ, problem)

\* user 3 is let in to read the private problem 1 of user 2 by nothing but a
\* CONTROL grant of its group
PermissionMonotoneWitness ==
    /\ ~problems[1].isPublic
    /\ grants[1] = [NoGrants EXCEPT ![CONTROL].groups = {10}]
    /\ req.currentUser = 3
    /\ checked = [asked |-> TRUE, level |-> READ, problem |-> 1, ok |-> TRUE]

LocalesIn(variants) == {variants[i].locale : i \in 1..Len(variants)}

\* <<locale, text>> is what the variants give for the locale asked for
ResolvedFrom(variants, asked, locale, text) ==
    /\ locale \in LocalesIn(variants)
    /\ locale = (IF asked \in LocalesIn(variants) THEN asked ELSE variants[1].locale)
    /\ \E i \in 1..Len(variants) :
          variants[i].locale = locale /\ variants[i].text = text

=============================================================================
